---- MODULE Spec2Model ----
(***************************************************************************)
(* Model of @apify/storage-local:                                          *)
(*   - DatabaseConnectionCache   (src/src/database_connection_cache.ts)    *)
(*   - KeyValueStoreClient       (src/src/resource_clients/                *)
(*                                 key_value_store.js)                     *)
(* The cache and the key-value store client share no state. SpecCache is   *)
(* the cache; Spec is one client's store and record operations; SpecList   *)
(* is one client's record writes and key listings. Every call runs to      *)
(* completion before the next one starts. SpecTime adds the directory      *)
(* times and the _updateTimestamps promises, which settle on their own     *)
(* after the call that started them has returned; SpecRace splits listKeys *)
(* at its await between readdir and stat. getRecord is modelled in raw     *)
(* mode ({ buffer: true }).                                                *)
(***************************************************************************)
EXTENDS Integers, Sequences, FiniteSets, TLC

\* ------------------------------------------------------------------------
\* Bounds
\* ------------------------------------------------------------------------
\* number of Sqlite.Database objects constructed in one behaviour
MaxHandles == 3
\* number of record files in the storage directory
MaxFiles == 3
\* largest page size passed to listKeys
MaxLimit == 2
\* number of pages a paginating caller fetches before it gives up
MaxPages == 4
\* largest value of the clock
MaxTime == 2
\* number of _updateTimestamps promises that are unsettled at one time
MaxPending == 2

VARIABLES
    connections,  \* DatabaseConnectionCache.connections : path -> handle
    handles,      \* every Sqlite.Database constructed so far, by identity
    cres,         \* outcome of the last connection cache call
    dirs,         \* the storage directory: store name -> directory listing
    client,       \* the KeyValueStoreClient object: name, storeDir
    res,          \* outcome of the last KeyValueStoreClient call
    pageAcc,      \* items a paginating caller has concatenated so far
    pageState,    \* "idle" | "paging" | "done" | "failed"
    stats,        \* store name -> atime and mtime of the store directory
    clock,        \* the value `new Date()` gives
    pending,      \* the _updateTimestamps promises that have not settled
    scan          \* the listKeys call that has read the directory, if any

cacheVars == <<connections, handles, cres>>
kvVars == <<dirs, client, res, pageAcc, pageState, stats, clock, pending, scan>>
vars == <<connections, handles, cres, dirs, client, res, pageAcc, pageState,
          stats, clock, pending, scan>>

\* ========================================================================
\* DatabaseConnectionCache
\* ========================================================================
Paths == {"p1", "p2"}

\* Map.get(path) of a path that has no entry
NoHandle == 0

\* What the driver can do inside _createConnection: the constructor
\* succeeds and both PRAGMAs run ("ok"); the constructor throws because the
\* directory is missing ("nodir") or for another reason ("openfail"); the
\* constructor succeeds and the first ("walfail") or the second ("fkfail")
\* exec throws.
CreateOutcomes == {"ok", "nodir", "openfail", "walfail", "fkfail"}

\* A Sqlite.Database right after `new Sqlite(path, options)`.
NewHandle(path) == [path |-> path, open |-> TRUE, wal |-> FALSE, fk |-> FALSE]

\* connection.exec('PRAGMA journal_mode = WAL')
ExecWal(h) == [h EXCEPT !.wal = TRUE]

\* connection.exec('PRAGMA foreign_keys = ON')
ExecFk(h) == [h EXCEPT !.fk = TRUE]

\* mutant of _createConnection: a constructor error other than the missing
\* directory is rethrown as it is
createConnectionRethrows(path, outcome) ==
    IF outcome = "nodir"
    THEN [err |-> "ENOENT", conn |-> NoHandle, hs |-> handles]
    ELSE IF outcome = "openfail"
    THEN [err |-> "SqliteError", conn |-> NoHandle, hs |-> handles]
    ELSE IF outcome = "walfail"
    THEN [err |-> "SqliteError", conn |-> NoHandle,
          hs |-> Append(handles, NewHandle(path))]
    ELSE IF outcome = "fkfail"
    THEN [err |-> "SqliteError", conn |-> NoHandle,
          hs |-> Append(handles, ExecWal(NewHandle(path)))]
    ELSE [err |-> "none", conn |-> Len(handles) + 1,
          hs |-> Append(handles, ExecFk(ExecWal(NewHandle(path))))]

\* _createConnection(path, options): the error thrown ("none" when it
\* returns), the handle returned, and the handles that exist afterwards.
\* A handle whose PRAGMA throws has been constructed and is never closed.
createConnection(path, outcome) ==
    IF outcome = "nodir"
    THEN [err |-> "ENOENT", conn |-> NoHandle, hs |-> handles]
    ELSE IF outcome = "openfail"
    THEN [err |-> "ConnectionError", conn |-> NoHandle, hs |-> handles]
    ELSE IF outcome = "walfail"
    THEN [err |-> "SqliteError", conn |-> NoHandle,
          hs |-> Append(handles, NewHandle(path))]
    ELSE IF outcome = "fkfail"
    THEN [err |-> "SqliteError", conn |-> NoHandle,
          hs |-> Append(handles, ExecWal(NewHandle(path)))]
    ELSE [err |-> "none", conn |-> Len(handles) + 1,
          hs |-> Append(handles, ExecFk(ExecWal(NewHandle(path))))]

CacheResult(op, path, err, conn) ==
    [op |-> op, path |-> path, err |-> err, conn |-> conn]

\* mutant of openConnection: the cache is not consulted
openConnectionNoLookup(path) ==
    /\ Len(handles) < MaxHandles
    /\ \E outcome \in CreateOutcomes :
        LET r == createConnection(path, outcome) IN
        /\ handles' = r.hs
        /\ connections' = IF r.err = "none"
                          THEN [connections EXCEPT ![path] = r.conn]
                          ELSE connections
        /\ cres' = CacheResult("open", path, r.err, r.conn)
    /\ UNCHANGED kvVars

openConnection(path) ==
    /\ IF connections[path] # NoHandle
       THEN /\ cres' = CacheResult("open", path, "none", connections[path])
            /\ UNCHANGED <<connections, handles>>
       ELSE /\ Len(handles) < MaxHandles
            /\ \E outcome \in CreateOutcomes :
                LET r == createConnection(path, outcome) IN
                /\ handles' = r.hs
                /\ connections' = IF r.err = "none"
                                  THEN [connections EXCEPT ![path] = r.conn]
                                  ELSE connections
                /\ cres' = CacheResult("open", path, r.err, r.conn)
    /\ UNCHANGED kvVars

\* mutant of closeConnection: every cached handle is closed and evicted
closeConnectionEvictsAll(path) ==
    /\ handles' = [i \in 1..Len(handles) |->
                     IF \E p \in Paths : connections[p] = i
                     THEN [handles[i] EXCEPT !.open = FALSE]
                     ELSE handles[i]]
    /\ connections' = [p \in Paths |-> NoHandle]
    /\ cres' = CacheResult("close", path, "none", NoHandle)
    /\ UNCHANGED kvVars

closeConnection(path) ==
    /\ IF connections[path] # NoHandle
       THEN /\ handles' = [handles EXCEPT ![connections[path]].open = FALSE]
            /\ connections' = [connections EXCEPT ![path] = NoHandle]
       ELSE UNCHANGED <<connections, handles>>
    /\ cres' = CacheResult("close", path, "none", NoHandle)
    /\ UNCHANGED kvVars

\* mutant of closeAllConnections: the handles are closed, the map is kept
closeAllConnectionsKeepsMap ==
    /\ handles' = [i \in 1..Len(handles) |->
                     IF \E p \in Paths : connections[p] = i
                     THEN [handles[i] EXCEPT !.open = FALSE]
                     ELSE handles[i]]
    /\ connections' = connections
    /\ cres' = CacheResult("closeAll", "", "none", NoHandle)
    /\ UNCHANGED kvVars

closeAllConnections ==
    /\ handles' = [i \in 1..Len(handles) |->
                     IF \E p \in Paths : connections[p] = i
                     THEN [handles[i] EXCEPT !.open = FALSE]
                     ELSE handles[i]]
    /\ connections' = [p \in Paths |-> NoHandle]
    /\ cres' = CacheResult("closeAll", "", "none", NoHandle)
    /\ UNCHANGED kvVars

InitCache ==
    /\ connections = [p \in Paths |-> NoHandle]
    /\ handles = <<>>
    /\ cres = CacheResult("new", "", "none", NoHandle)

\* ========================================================================
\* KeyValueStoreClient: the storage directory and pure helpers
\* ========================================================================
\* Names of directories under storageDir. Record keys are non-empty and
\* contain no path separator, so `${key}.${extension}` names one file of
\* the store directory and path.parse(file).name gives the key back.
StoreNames == {"s1", "s2"}
Keys == {"a", "b"}

\* a JS `undefined` argument, option or result field
Undefined == "undefined"

\* Values passed to setRecord: two strings and one plain object.
StringValues == {[kind |-> "string", body |-> "A"],
                 [kind |-> "string", body |-> "BB"]}
ObjectValues == {[kind |-> "object", body |-> "O"]}
Values == StringValues \cup ObjectValues

\* contentType arguments passed to setRecord: none, or a type that
\* mime.contentType gives back unchanged for its extension
ContentTypes == {Undefined, "application/zip"}

\* exclusiveStartKey arguments passed to listKeys: none, a key of the
\* store, or a key that no record has
Cursors == {Undefined, "x"} \cup Keys

DEFAULT_LOCAL_FILE_EXTENSION == "bin"

COMMON_LOCAL_FILE_EXTENSIONS ==
    <<"json", "jpeg", "png", "html", "jpg", "bin", "txt", "xml", "pdf",
      "mp3", "js", "css", "csv">>

\* mime.extension(contentType); "false" when the type has no extension
MimeExtension(contentType) ==
    CASE contentType = "application/json; charset=utf-8" -> "json"
      [] contentType = "text/plain; charset=utf-8" -> "txt"
      [] contentType = "text/plain" -> "txt"
      [] contentType = "application/octet-stream" -> "bin"
      [] contentType = "application/zip" -> "zip"
      [] OTHER -> "false"

\* mime.contentType(fileName): the type of the file's extension, with the
\* charset parameter the mime database gives it
MimeContentType(ext) ==
    CASE ext = "json" -> "application/json; charset=utf-8"
      [] ext = "txt" -> "text/plain; charset=utf-8"
      [] ext = "bin" -> "application/octet-stream"
      [] ext = "zip" -> "application/zip"
      [] OTHER -> "false"

\* JSON.stringify(value, null, 2)
JSONStringify(body) == "json(" \o body \o ")"

\* the lexical order of `<` on the strings used as keys and cursors
KeyRank(k) == CASE k = "a" -> 1 [] k = "b" -> 2 [] k = "x" -> 3 [] OTHER -> 4

KeyLess(j, k) == KeyRank(j) < KeyRank(k)

\* a directory that fs.stat / fs.readdir report as ENOENT
AbsentDir == [exists |-> FALSE, files |-> <<>>]

EmptyDir == [exists |-> TRUE, files |-> <<>>]

Min(S) == CHOOSE m \in S : \A n \in S : m <= n

\* position of the file `${key}.${ext}` in a directory listing, 0 if none
FileIndex(files, key, ext) ==
    LET hits == {i \in 1..Len(files) :
                    files[i].key = key /\ files[i].ext = ext}
    IN IF hits = {} THEN 0 ELSE Min(hits)

\* files.find((file) => key === path.parse(file).name): position, 0 if none
FindByKey(files, key) ==
    LET hits == {i \in 1..Len(files) : files[i].key = key}
    IN IF hits = {} THEN 0 ELSE Min(hits)

TotalFiles ==
    LET RECURSIVE Sum(_)
        Sum(S) == IF S = {} THEN 0
                  ELSE LET n == CHOOSE m \in S : TRUE
                       IN Len(dirs[n].files) + Sum(S \ {n})
    IN Sum(StoreNames)

\* mutant of _findFileNameByKey: a missing directory reads as empty
findFileNameByKeyNo404(d, key) ==
    [err |-> "none", idx |-> FindByKey(d.files, key)]

\* _findFileNameByKey(key) on directory d
findFileNameByKey(d, key) ==
    IF ~d.exists
    THEN [err |-> "ENOENT", idx |-> 0]
    ELSE [err |-> "none", idx |-> FindByKey(d.files, key)]

\* mutant of _handleFile: the directory listing is searched first
handleFileScansFirst(d, key) == findFileNameByKey(d, key)

\* _handleFile(key, handler) up to the handler call: the file the handler
\* runs on (idx, 0 if none) or the error thrown. _invokeHandler swallows
\* the ENOENT of every probe, so a missing directory is only noticed by
\* _findFileNameByKey.
handleFile(d, key) ==
    LET hits == {i \in 1..Len(COMMON_LOCAL_FILE_EXTENSIONS) :
                    FileIndex(d.files, key,
                              COMMON_LOCAL_FILE_EXTENSIONS[i]) # 0}
    IN IF hits # {}
       THEN [err |-> "none",
             idx |-> FileIndex(d.files, key,
                               COMMON_LOCAL_FILE_EXTENSIONS[Min(hits)])]
       ELSE findFileNameByKey(d, key)

\* ------------------------------------------------------------------------
\* listKeys
\* ------------------------------------------------------------------------
Reverse(s) == [i \in 1..Len(s) |-> s[Len(s) + 1 - i]]

\* the { key, size } pushed for a file; size is the file's length
Item(file) == [key |-> file.key, size |-> Len(file.data)]

\* Array.prototype.sort with the comparator of listKeys: stable, ascending
\* by key (insertion after the last element that is not greater)
RECURSIVE InsertItem(_, _)
InsertItem(sorted, item) ==
    IF sorted = <<>> THEN <<item>>
    ELSE IF KeyLess(item.key, sorted[Len(sorted)].key)
    THEN Append(InsertItem(SubSeq(sorted, 1, Len(sorted) - 1), item),
                sorted[Len(sorted)])
    ELSE Append(sorted, item)

RECURSIVE SortItems(_)
SortItems(items) ==
    IF items = <<>> THEN <<>>
    ELSE InsertItem(SortItems(SubSeq(items, 1, Len(items) - 1)),
                    items[Len(items)])

\* the sorted `items` array of listKeys for directory listing `files`
SortedItems(files, desc) ==
    LET raw == IF desc = TRUE THEN Reverse(files) ELSE files
    IN SortItems([i \in 1..Len(raw) |-> Item(raw[i])])

\* mutant of KeyPos: the position after which keys sort after the cursor,
\* whether or not the cursor is a key of the store
KeyPosLexical(items, exclusiveStartKey) ==
    Cardinality({i \in 1..Len(items) :
                    ~KeyLess(exclusiveStartKey, items[i].key)})

\* items.findIndex((item) => item.key === exclusiveStartKey) + 1, 0 if none
KeyPos(items, exclusiveStartKey) ==
    LET hits == {i \in 1..Len(items) : items[i].key = exclusiveStartKey}
    IN IF hits = {} THEN 0 ELSE Min(hits)

ListResult(err, limit, cursor, desc, count, items, next, isTruncated) ==
    [op |-> "listKeys", key |-> Undefined, err |-> err, found |-> FALSE,
     value |-> Undefined, contentType |-> Undefined, name |-> Undefined,
     limit |-> limit, cursor |-> cursor, desc |-> desc, count |-> count,
     items |-> items, next |-> next, isTruncated |-> isTruncated]

\* listKeys({ limit, exclusiveStartKey, desc }) on directory d: its result,
\* or the error it throws. `lastItemInStore === lastSelectedItem` compares
\* object identity, that is positions in `items` (both undefined when
\* `items` is empty); reading `.key` of an undefined lastSelectedItem
\* throws a TypeError.
ListKeysPage(d, limit, cursor, desc) ==
    IF ~d.exists
    THEN ListResult("ENOENT", limit, cursor, desc, 0, <<>>, Undefined, FALSE)
    ELSE
    LET items == SortedItems(d.files, desc)
        n == Len(items)
        keyPos == IF cursor # Undefined THEN KeyPos(items, cursor) ELSE 0
        last == IF keyPos + limit < n THEN keyPos + limit ELSE n
        limitedItems == SubSeq(items, keyPos + 1, last)
        isLast == IF limitedItems = <<>> THEN n = 0 ELSE last = n
    IN IF ~isLast /\ limitedItems = <<>>
       THEN ListResult("TypeError", limit, cursor, desc, 0, <<>>,
                       Undefined, FALSE)
       ELSE LET next == IF isLast THEN Undefined
                        ELSE limitedItems[Len(limitedItems)].key
            IN ListResult("none", limit, cursor, desc, n, limitedItems,
                          next, next = Undefined)

\* ------------------------------------------------------------------------
\* Filesystem calls
\* ------------------------------------------------------------------------
InsertAt(s, pos, e) == SubSeq(s, 1, pos - 1) \o <<e>> \o SubSeq(s, pos, Len(s))

RemoveAt(s, pos) == SubSeq(s, 1, pos - 1) \o SubSeq(s, pos + 1, Len(s))

\* mutant of writeFile: the missing directory is created (mkdirp)
writeFileMkdir(d, key, ext, data, pos) ==
    LET i == FileIndex(d.files, key, ext)
    IN IF i # 0
       THEN [err |-> "none",
             dir |-> [d EXCEPT !.files[i].data = data]]
       ELSE [err |-> "none",
             dir |-> [exists |-> TRUE,
                      files |-> InsertAt(d.files, pos,
                                  [key |-> key, ext |-> ext, data |-> data])]]

\* fs.writeFile(filePath, value) for the file `${key}.${ext}` of directory
\* d: ENOENT when the directory is missing, the file's content replaced when
\* the file exists, a new directory entry otherwise. The place of a new
\* entry in the raw fs.readdir order is the file system's choice (pos).
writeFile(d, key, ext, data, pos) ==
    LET i == FileIndex(d.files, key, ext)
    IN IF ~d.exists
       THEN [err |-> "ENOENT", dir |-> d]
       ELSE IF i # 0
       THEN [err |-> "none",
             dir |-> [d EXCEPT !.files[i].data = data]]
       ELSE [err |-> "none",
             dir |-> [d EXCEPT !.files = InsertAt(d.files, pos,
                                  [key |-> key, ext |-> ext, data |-> data])]]

\* mutant of fsMove: an existing destination is overwritten
fsMoveOverwrite(ds, src, dest) ==
    IF ~ds[src].exists
    THEN [err |-> "ENOENT", dirs |-> ds]
    ELSE IF src = dest
    THEN [err |-> "same", dirs |-> ds]
    ELSE [err |-> "none",
          dirs |-> [ds EXCEPT ![dest] = ds[src], ![src] = AbsentDir]]

\* fs.move(src, dest) of fs-extra 9 (package.json) without overwrite: the
\* source is stat'ed first (ENOENT), a destination that is the source
\* itself is refused ("Source and destination must not be the same."),
\* then an existing destination ("dest already exists."), then the rename.
fsMove(ds, src, dest) ==
    IF ~ds[src].exists
    THEN [err |-> "ENOENT", dirs |-> ds]
    ELSE IF src = dest
    THEN [err |-> "same", dirs |-> ds]
    ELSE IF ds[dest].exists
    THEN [err |-> "dest already exists", dirs |-> ds]
    ELSE [err |-> "none",
          dirs |-> [ds EXCEPT ![dest] = ds[src], ![src] = AbsentDir]]

\* ------------------------------------------------------------------------
\* KeyValueStoreClient operations
\* ------------------------------------------------------------------------
Result(op, key, err, found, value, contentType, name) ==
    [op |-> op, key |-> key, err |-> err, found |-> found,
     value |-> value, contentType |-> contentType, name |-> name,
     limit |-> 0, cursor |-> Undefined, desc |-> FALSE, count |-> 0,
     items |-> <<>>, next |-> Undefined, isTruncated |-> FALSE]

\* the directory this.storeDir
StoreDir == dirs[client.storeDir]

\* a call that is not part of a pagination abandons the pagination
ResetPages == pageAcc' = <<>> /\ pageState' = "idle"

\* new KeyValueStoreClient({ name, storageDir }): storeDir is
\* path.join(storageDir, name)
NewClient(name) == [name |-> name, storeDir |-> name]

\* get() on client c: the metadata object (found, with name) or undefined
getMetadata(ds, c) ==
    IF ds[c.storeDir].exists
    THEN Result("get", Undefined, "none", TRUE, Undefined, Undefined, c.name)
    ELSE Result("get", Undefined, "none", FALSE, Undefined, Undefined,
                Undefined)

get ==
    /\ res' = getMetadata(dirs, client)
    /\ ResetPages
    /\ UNCHANGED <<dirs, client, connections, handles, cres,
                 stats, clock, pending, scan>>

\* the error update() throws for the error of fs.move
UpdateError(moveErr) ==
    CASE moveErr = "none" -> "none"
      [] moveErr = "dest already exists" -> "NotUnique"
      [] moveErr = "ENOENT" -> "ENOENT"
      [] OTHER -> moveErr

update(newName) ==
    /\ IF newName = Undefined
       THEN /\ res' = Result("update", Undefined, "none", FALSE, Undefined,
                             Undefined, newName)
            /\ UNCHANGED <<dirs, client>>
       ELSE LET m == fsMove(dirs, client.storeDir, newName) IN
            /\ dirs' = m.dirs
            /\ client' = IF m.err = "none"
                         THEN [client EXCEPT !.name = newName]
                         ELSE client
            /\ res' = Result("update", Undefined, UpdateError(m.err), FALSE,
                             Undefined, Undefined, newName)
    /\ ResetPages
    /\ UNCHANGED <<connections, handles, cres,
                 stats, clock, pending, scan>>

\* delete(): fs.remove(this.storeDir)
delete ==
    /\ dirs' = [dirs EXCEPT ![client.storeDir] = AbsentDir]
    /\ res' = Result("delete", Undefined, "none", FALSE, Undefined,
                     Undefined, Undefined)
    /\ ResetPages
    /\ UNCHANGED <<client, connections, handles, cres,
                 stats, clock, pending, scan>>

listKeysCall(limit, cursor, desc) ==
    /\ res' = ListKeysPage(StoreDir, limit, cursor, desc)
    /\ ResetPages
    /\ UNCHANGED <<dirs, client, connections, handles, cres>>

\* getRecord(key, { buffer: true })
getRecordCall(key) ==
    /\ LET h == handleFile(StoreDir, key) IN
       res' = IF h.err # "none"
              THEN Result("getRecord", key, h.err, FALSE, Undefined,
                          Undefined, Undefined)
              ELSE IF h.idx = 0
              THEN Result("getRecord", key, "none", FALSE, Undefined,
                          Undefined, Undefined)
              ELSE Result("getRecord", key, "none", TRUE,
                          StoreDir.files[h.idx].data,
                          MimeContentType(StoreDir.files[h.idx].ext),
                          Undefined)
    /\ ResetPages
    /\ UNCHANGED <<dirs, client, connections, handles, cres>>

\* the content type setRecord works with
ResolveContentType(value, contentType) ==
    IF contentType # Undefined THEN contentType
    ELSE IF value.kind = "buffer" THEN "application/octet-stream"
    ELSE IF value.kind = "string" THEN "text/plain; charset=utf-8"
    ELSE "application/json; charset=utf-8"

\* mime.extension(contentType) || DEFAULT_LOCAL_FILE_EXTENSION
ResolveExtension(contentType) ==
    IF MimeExtension(contentType) = "false"
    THEN DEFAULT_LOCAL_FILE_EXTENSION
    ELSE MimeExtension(contentType)

\* the bytes setRecord hands to fs.writeFile
WrittenData(value, extension) ==
    IF extension = "json" /\ value.kind = "object"
    THEN JSONStringify(value.body)
    ELSE value.body

\* setRecord({ key, value, contentType }). Plain objects are written as
\* JSON only: what fs.writeFile does with a plain object depends on the
\* Node version, so those calls are left out of the inputs.
setRecordCall(key, value, contentType) ==
    LET ct == ResolveContentType(value, contentType)
        ext == ResolveExtension(ct)
        data == WrittenData(value, ext)
    IN /\ value.kind = "object" => ext = "json"
       /\ FileIndex(StoreDir.files, key, ext) = 0 => TotalFiles < MaxFiles
       /\ \E pos \in 1..(Len(StoreDir.files) + 1) :
            LET w == writeFile(StoreDir, key, ext, data, pos) IN
            /\ dirs' = [dirs EXCEPT ![client.storeDir] = w.dir]
            /\ res' = Result("setRecord", key, w.err, FALSE, data, ct,
                             Undefined)
       /\ ResetPages
       /\ UNCHANGED <<client, connections, handles, cres>>

deleteRecordCall(key) ==
    /\ LET h == handleFile(StoreDir, key) IN
       /\ dirs' = IF h.err = "none" /\ h.idx # 0
                  THEN [dirs EXCEPT ![client.storeDir].files =
                                        RemoveAt(StoreDir.files, h.idx)]
                  ELSE dirs
       /\ res' = Result("deleteRecord", key, h.err,
                        h.err = "none" /\ h.idx # 0, Undefined, Undefined,
                        Undefined)
    /\ ResetPages
    /\ UNCHANGED <<client, connections, handles, cres>>

\* The four calls with the directory times and the directory scan left
\* out: the operations of Spec and SpecList, which read neither.
NoTimestamps == UNCHANGED <<stats, clock, pending, scan>>

listKeys(limit, cursor, desc) ==
    listKeysCall(limit, cursor, desc) /\ NoTimestamps

getRecord(key) == getRecordCall(key) /\ NoTimestamps

setRecord(key, value, contentType) ==
    setRecordCall(key, value, contentType) /\ NoTimestamps

deleteRecord(key) == deleteRecordCall(key) /\ NoTimestamps

\* ------------------------------------------------------------------------
\* A caller that pages through listKeys with nextExclusiveStartKey
\* ------------------------------------------------------------------------
PageStateOf(r) ==
    IF r.err # "none" THEN "failed"
    ELSE IF r.next = Undefined THEN "done" ELSE "paging"

\* first page: listKeys({ limit })
PageStart(limit) ==
    /\ res' = ListKeysPage(StoreDir, limit, Undefined, FALSE)
    /\ pageAcc' = res'.items
    /\ pageState' = PageStateOf(res')
    /\ UNCHANGED <<dirs, client, connections, handles, cres,
                 stats, clock, pending, scan>>

\* next page: listKeys({ limit, exclusiveStartKey: nextExclusiveStartKey })
PageNext ==
    /\ pageState = "paging"
    /\ Len(pageAcc) < MaxPages
    /\ res' = ListKeysPage(StoreDir, res.limit, res.next, FALSE)
    /\ pageAcc' = pageAcc \o res'.items
    /\ pageState' = PageStateOf(res')
    /\ UNCHANGED <<dirs, client, connections, handles, cres,
                 stats, clock, pending, scan>>

\* ------------------------------------------------------------------------
\* _updateTimestamps: the calls with their timestamp updates
\* ------------------------------------------------------------------------
\* Only the fs.utimes calls of _updateTimestamps change the directory
\* times; what the file system itself does to them is left out.

\* _updateTimestamps({ mtime }) up to its first await: `now` is taken and
\* the promise is started. With mtime it is fs.utimes(storeDir, now, now);
\* without, fs.stat(storeDir) comes first and fs.utimes follows with the
\* mtime the stat gave.
updateTimestamps(mtime) ==
    /\ Len(pending) < MaxPending
    /\ pending' = Append(pending,
                         IF mtime
                         THEN [stage |-> "utimes", read |-> FALSE,
                               now |-> clock, mtime |-> clock]
                         ELSE [stage |-> "stat", read |-> TRUE,
                               now |-> clock, mtime |-> 0])

\* `new Date()` gives a later time
Tick ==
    /\ clock < MaxTime
    /\ clock' = clock + 1
    /\ UNCHANGED <<connections, handles, cres, dirs, client, res, pageAcc,
                   pageState, stats, pending, scan>>

\* fs.stat(this.storeDir) of promise i settles: its mtime is kept for the
\* fs.utimes that follows; a rejection ends the promise (the catch)
StatDone(i) ==
    /\ pending[i].stage = "stat"
    /\ pending' = IF StoreDir.exists
                  THEN [pending EXCEPT ![i] =
                           [stage |-> "utimes", read |-> TRUE,
                            now |-> pending[i].now,
                            mtime |-> stats[client.storeDir].mtime]]
                  ELSE RemoveAt(pending, i)
    /\ UNCHANGED <<connections, handles, cres, dirs, client, res, pageAcc,
                   pageState, stats, clock, scan>>

\* fs.utimes(this.storeDir, now, mtime) of promise i settles
UtimesDone(i) ==
    /\ pending[i].stage = "utimes"
    /\ stats' = IF StoreDir.exists
                THEN [stats EXCEPT ![client.storeDir] =
                         [atime |-> pending[i].now,
                          mtime |-> pending[i].mtime]]
                ELSE stats
    /\ pending' = RemoveAt(pending, i)
    /\ UNCHANGED <<connections, handles, cres, dirs, client, res, pageAcc,
                   pageState, clock, scan>>

\* listKeys: _updateTimestamps() once the page is computed
listKeysTimed(limit, cursor, desc) ==
    /\ listKeysCall(limit, cursor, desc)
    /\ IF res'.err = "none"
       THEN updateTimestamps(FALSE)
       ELSE pending' = pending
    /\ UNCHANGED <<stats, clock, scan>>

\* getRecord: _updateTimestamps() when a record is returned
getRecordTimed(key) ==
    /\ getRecordCall(key)
    /\ IF res'.err = "none" /\ res'.found
       THEN updateTimestamps(FALSE)
       ELSE pending' = pending
    /\ UNCHANGED <<stats, clock, scan>>

\* setRecord: _updateTimestamps({ mtime: true }) after the write
setRecordTimed(key, value, contentType) ==
    /\ setRecordCall(key, value, contentType)
    /\ IF res'.err = "none"
       THEN updateTimestamps(TRUE)
       ELSE pending' = pending
    /\ UNCHANGED <<stats, clock, scan>>

\* deleteRecord: _updateTimestamps({ mtime: true }) when a file was removed
deleteRecordTimed(key) ==
    /\ deleteRecordCall(key)
    /\ IF res'.err = "none" /\ res'.found
       THEN updateTimestamps(TRUE)
       ELSE pending' = pending
    /\ UNCHANGED <<stats, clock, scan>>

\* no listKeys call is between its readdir and its stats
NoScan ==
    [active |-> FALSE, files |-> <<>>, limit |-> 0, cursor |-> Undefined,
     desc |-> FALSE]

\* ------------------------------------------------------------------------
\* listKeys in two steps, with other calls in between
\* ------------------------------------------------------------------------
\* listKeys up to `await fs.readdir(this.storeDir)`: the file names are
\* read, or the call fails as not-found
listKeysReaddir(limit, cursor, desc) ==
    /\ ~scan.active
    /\ IF StoreDir.exists
       THEN /\ scan' = [active |-> TRUE, files |-> StoreDir.files,
                        limit |-> limit, cursor |-> cursor, desc |-> desc]
            /\ res' = res
       ELSE /\ scan' = scan
            /\ res' = ListKeysPage(StoreDir, limit, cursor, desc)
    /\ ResetPages
    /\ UNCHANGED <<dirs, client, connections, handles, cres, stats, clock,
                   pending>>

\* the files of the names read that fs.stat still finds, as they are now;
\* a name whose stat gives ENOENT is skipped
StatFiles(names, d) ==
    LET found == SelectSeq(names,
                     LAMBDA f : FileIndex(d.files, f.key, f.ext) # 0)
    IN [i \in 1..Len(found) |->
           d.files[FileIndex(d.files, found[i].key, found[i].ext)]]

\* listKeys from the stat loop to its return
listKeysStat ==
    /\ scan.active
    /\ res' = ListKeysPage([exists |-> TRUE,
                            files |-> StatFiles(scan.files, StoreDir)],
                           scan.limit, scan.cursor, scan.desc)
    /\ scan' = NoScan
    /\ ResetPages
    /\ UNCHANGED <<dirs, client, connections, handles, cres, stats, clock,
                   pending>>

\* ------------------------------------------------------------------------
\* Specifications
\* ------------------------------------------------------------------------
\* a store that holds the record a.txt
OneRecordDir ==
    [exists |-> TRUE,
     files |-> <<[key |-> "a", ext |-> "txt", data |-> "A"]>>]

\* A client for store "s1" has just been constructed; each store of the
\* storage directory is missing, empty or holds one record.
InitKV ==
    /\ dirs \in [StoreNames -> {AbsentDir, EmptyDir, OneRecordDir}]
    /\ client = NewClient("s1")
    /\ res = Result("new", Undefined, "none", FALSE, Undefined, Undefined,
                    Undefined)
    /\ pageAcc = <<>>
    /\ pageState = "idle"
    /\ stats = [n \in StoreNames |-> [atime |-> 0, mtime |-> 0]]
    /\ clock = 0
    /\ pending = <<>>
    /\ scan = NoScan

Init == InitCache /\ InitKV

NextCache ==
    \/ \E p \in Paths : openConnection(p)
    \/ \E p \in Paths : closeConnection(p)
    \/ closeAllConnections

\* store and record operations of one client at a time
Next ==
    \/ get
    \/ \E n \in StoreNames \cup {Undefined} : update(n)
    \/ delete
    \/ \E k \in Keys : getRecord(k)
    \/ \E k \in Keys, v \in Values, ct \in ContentTypes : setRecord(k, v, ct)
    \/ \E k \in Keys : deleteRecord(k)

\* record writes and key listings of one client
NextList ==
    \/ \E k \in Keys, v \in Values, ct \in ContentTypes : setRecord(k, v, ct)
    \/ \E k \in Keys : deleteRecord(k)
    \/ \E l \in 1..MaxLimit, c \in Cursors, d \in BOOLEAN : listKeys(l, c, d)
    \/ \E l \in 1..MaxLimit : PageStart(l)
    \/ PageNext

\* the key the calls of SpecTime work on
TimedKeys == {"a"}

\* one client's record calls, the clock and the settling of the
\* timestamp promises, in every order
NextTime ==
    \/ \E k \in TimedKeys : getRecordTimed(k)
    \/ \E l \in 1..MaxLimit : listKeysTimed(l, Undefined, FALSE)
    \/ \E k \in TimedKeys, v \in StringValues :
            setRecordTimed(k, v, Undefined)
    \/ \E k \in TimedKeys : deleteRecordTimed(k)
    \/ Tick
    \/ \E i \in 1..Len(pending) : StatDone(i)
    \/ \E i \in 1..Len(pending) : UtimesDone(i)

\* the cursors of the two-step listKeys: none, and the first key
RaceCursors == {Undefined, "a"}

\* record writes and deletes between the two steps of a listKeys call
NextRace ==
    \/ \E k \in Keys, v \in StringValues : setRecord(k, v, Undefined)
    \/ \E k \in Keys : deleteRecord(k)
    \/ \E l \in 1..MaxLimit, c \in RaceCursors : listKeysReaddir(l, c, FALSE)
    \/ listKeysStat

\* the connection cache
SpecCache == Init /\ [][NextCache]_vars

\* the key-value store client: stores and records
Spec == Init /\ [][Next]_vars

\* the key-value store client: records and listKeys
SpecList == Init /\ [][NextList]_vars

\* the key-value store client: records and listKeys in two steps
SpecRace == Init /\ [][NextRace]_vars

\* the key-value store client: records, listKeys and directory times
SpecTime == Init /\ [][NextTime]_vars

\* ========================================================================
\* Properties
\* ========================================================================
IsPrefix(s, t) == Len(s) <= Len(t) /\ s = SubSeq(t, 1, Len(s))

\* C1: an openConnection that returns gives the handle cached for the path
\* when there is one (the same instance as the previous open of that path
\* with no close in between); otherwise (first open, or first open after
\* closeConnection) it gives a handle that did not exist before the call,
\* so distinct from every closed one, which is open, belongs to the path
\* and has had both PRAGMAs (WAL, foreign keys) applied.
C1_SameHandleUntilClosed ==
    [][(cres'.op = "open" /\ cres'.err = "none") =>
          IF connections[cres'.path] # NoHandle
          THEN cres'.conn = connections[cres'.path]
          ELSE /\ cres'.conn \in 1..Len(handles')
               /\ cres'.conn \notin 1..Len(handles)
               /\ handles'[cres'.conn].path = cres'.path
               /\ handles'[cres'.conn].open
               /\ handles'[cres'.conn].wal
               /\ handles'[cres'.conn].fk]_vars

\* openConnection has just returned a fresh, configured handle for a path
\* whose earlier handle was closed
C1_Witness ==
    /\ cres.op = "open" /\ cres.err = "none"
    /\ handles[cres.conn].open /\ handles[cres.conn].wal
    /\ handles[cres.conn].fk
    /\ \E i \in 1..Len(handles) :
          /\ i # cres.conn
          /\ handles[i].path = cres.path
          /\ ~handles[i].open

\* C2: at most one live (constructed and not closed) database handle per
\* path, whatever calls were made, failed openConnection calls included.
C2_AtMostOneLiveHandlePerPath ==
    \A i, j \in 1..Len(handles) :
        (handles[i].open /\ handles[j].open
            /\ handles[i].path = handles[j].path) => i = j

\* C3: a getRecord(key, { buffer: true }) that directly follows a
\* successful setRecord of that key returns the bytes and the content type
\* of that setRecord, whatever was written to the store before.
C3_SetThenGetRoundTrip ==
    [][(res.op = "setRecord" /\ res.err = "none"
            /\ res'.op = "getRecord" /\ res'.key = res.key) =>
          /\ res'.err = "none"
          /\ res'.found
          /\ res'.value = res.value
          /\ res'.contentType = res.contentType]_vars

\* C4: at most one file of a store directory maps to a given key.
C4_OneFilePerKey ==
    \A n \in StoreNames :
        \A i, j \in 1..Len(dirs[n].files) :
            dirs[n].files[i].key = dirs[n].files[j].key => i = j

\* the full sorted listing of the client's store
FullListing == SortedItems(StoreDir.files, FALSE)

\* C5: paging through an existing store with listKeys and
\* nextExclusiveStartKey never fails, the pages concatenated so far are
\* always a prefix of the store's full sorted listing (so the paging ends),
\* and when a page has no nextExclusiveStartKey they are the full listing.
C5_PagesReconstructListing ==
    /\ pageState = "failed" => ~StoreDir.exists
    /\ pageState \in {"paging", "done"} => IsPrefix(pageAcc, FullListing)
    /\ pageState = "done" => pageAcc = FullListing

\* the page of a listKeys result is final: no item of the store's sorted
\* listing comes after the page's last item
IsFinalPage(r) ==
    LET all == SortedItems(StoreDir.files, r.desc)
        pos == IF r.cursor # Undefined THEN KeyPos(all, r.cursor) ELSE 0
    IN pos + Len(r.items) = Len(all)

\* C6: a listKeys page has isTruncated = FALSE exactly when it is the final
\* page and has no nextExclusiveStartKey, and isTruncated = TRUE whenever it
\* has a nextExclusiveStartKey.
C6_TruncatedIffNotFinal ==
    (res.op = "listKeys" /\ res.err = "none") =>
        /\ res.isTruncated = FALSE <=>
              (IsFinalPage(res) /\ res.next = Undefined)
        /\ res.next # Undefined => res.isTruncated = TRUE

\* C7: the items of a listKeys result are in strictly ascending key order,
\* and they are the items the same call gives with desc flipped.
C7_AscendingWhateverDesc ==
    (res.op = "listKeys" /\ res.err = "none") =>
        /\ \A i \in 1..(Len(res.items) - 1) :
              KeyLess(res.items[i].key, res.items[i + 1].key)
        /\ res.items =
              ListKeysPage(StoreDir, res.limit, res.cursor, ~res.desc).items

C9_ConflictWheneverNameTaken ==
    [][(res'.op = "update" /\ res'.name # Undefined) =>
          /\ dirs[res'.name].exists => res'.err = "NotUnique"
          /\ ~StoreDir.exists => res'.err = "ENOENT"
          /\ res'.err # "none" => (dirs' = dirs /\ client' = client)]_vars

\* C9 amended: update({ name: n }) fails as not-found whenever the source
\* store does not exist, also when a store named n exists; it fails as
\* NotUnique when the source exists and another store is named n; every
\* failed update changes no directory and not the client.
C9_ConflictWhenSourceExists ==
    [][(res'.op = "update" /\ res'.name # Undefined) =>
          /\ ~StoreDir.exists => res'.err = "ENOENT"
          /\ (StoreDir.exists /\ res'.name # client.storeDir
                /\ dirs[res'.name].exists) => res'.err = "NotUnique"
          /\ res'.err # "none" => (dirs' = dirs /\ client' = client)]_vars

\* update has failed as NotUnique and both stores still hold their records
C9_Witness ==
    /\ res.op = "update"
    /\ res.err = "NotUnique"
    /\ client.name = client.storeDir
    /\ StoreDir.files # <<>>
    /\ dirs[res.name].files # <<>>

\* C10: setRecord on a store whose directory does not exist fails with
\* ENOENT and changes no directory, and get() still reports no store.
C10_SetRecordOnMissingStore ==
    [][(res'.op = "setRecord" /\ ~StoreDir.exists) =>
          /\ res'.err = "ENOENT"
          /\ dirs' = dirs
          /\ ~getMetadata(dirs', client').found]_vars

\* setRecord has failed with ENOENT and the store directory is still missing
C10_Witness ==
    /\ res.op = "setRecord"
    /\ res.err = "ENOENT"
    /\ ~StoreDir.exists
    /\ ~getMetadata(dirs, client).found


\* C11: closeConnection(path) raises no error, closes the handle cached for
\* the path and removes its entry, and leaves every other handle and every
\* other entry as it was; with no handle cached for the path it changes
\* nothing.
C11_CloseOnlyThatPath ==
    [][cres'.op = "close" =>
          /\ cres'.err = "none"
          /\ connections'[cres'.path] = NoHandle
          /\ \A q \in Paths \ {cres'.path} :
                connections'[q] = connections[q]
          /\ Len(handles') = Len(handles)
          /\ \A i \in 1..Len(handles) :
                IF i = connections[cres'.path]
                THEN handles'[i] = [handles[i] EXCEPT !.open = FALSE]
                ELSE handles'[i] = handles[i]
          /\ connections[cres'.path] = NoHandle =>
                (connections' = connections /\ handles' = handles)]_vars

\* closeConnection has closed one path's handle while the handle of another
\* path is still cached and open
C11_Witness ==
    /\ cres.op = "close"
    /\ connections[cres.path] = NoHandle
    /\ \E i \in 1..Len(handles) :
          handles[i].path = cres.path /\ ~handles[i].open
    /\ \E q \in Paths \ {cres.path} :
          connections[q] # NoHandle /\ handles[connections[q]].open

\* C12: after closeAllConnections the cache has no entry and every handle
\* that was cached is closed; after every call each cached handle is open,
\* and a handle openConnection returns is open.
C12_CloseAllEmptiesCache ==
    [][/\ cres'.op = "closeAll" =>
             /\ \A p \in Paths : connections'[p] = NoHandle
             /\ \A p \in Paths :
                   connections[p] # NoHandle =>
                       ~handles'[connections[p]].open
       /\ \A p \in Paths :
             connections'[p] # NoHandle => handles'[connections'[p]].open
       /\ (cres'.op = "open" /\ cres'.err = "none") =>
             handles'[cres'.conn].open]_vars

\* closeAllConnections has just closed the handles of both paths
C12_Witness ==
    /\ cres.op = "closeAll"
    /\ \A p \in Paths :
          /\ connections[p] = NoHandle
          /\ \E i \in 1..Len(handles) :
                handles[i].path = p /\ handles[i].wal /\ handles[i].fk
                    /\ ~handles[i].open

C14_ForeignCursorDropsNothing ==
    (/\ res.op = "listKeys"
     /\ StoreDir.exists
     /\ res.cursor # Undefined
     /\ FindByKey(StoreDir.files, res.cursor) = 0) =>
        LET plain == ListKeysPage(StoreDir, res.limit, Undefined, res.desc)
        IN /\ res.err = "none"
           /\ res.items = plain.items
           /\ res.next = plain.next
           /\ res.isTruncated = plain.isTruncated

\* listKeys has returned a truncated-by-limit page of a store with two keys
\* for a cursor that is no key of the store
C14_Witness ==
    /\ res.op = "listKeys"
    /\ res.err = "none"
    /\ res.cursor = "x"
    /\ Len(res.items) = 1
    /\ res.next # Undefined
    /\ FindByKey(StoreDir.files, "a") # 0
    /\ FindByKey(StoreDir.files, "b") # 0

\* C15: listKeys on an existing store returns a page and throws nothing;
\* when exclusiveStartKey is the greatest key of the store the page is
\* empty and has no nextExclusiveStartKey.
C15_ListKeysNeverThrows ==
    (res.op = "listKeys" /\ StoreDir.exists) =>
        /\ res.err = "none"
        /\ (/\ FullListing # <<>>
            /\ res.cursor = FullListing[Len(FullListing)].key) =>
              (res.items = <<>> /\ res.next = Undefined)

\* C16: right after a deleteRecord(key) that returns without error,
\* getRecord(key) finds nothing and the store's listing has no item with
\* that key.
C16_DeletedKeyIsGone ==
    [][(res'.op = "deleteRecord" /\ res'.err = "none") =>
          LET d == dirs'[client'.storeDir]
              listing == SortedItems(d.files, FALSE)
          IN /\ handleFile(d, res'.key).idx = 0
             /\ \A i \in 1..Len(listing) : listing[i].key # res'.key]_vars

\* C17: after a successful update({ name: n }) the client works on the
\* renamed store: get() finds it under name n, its directory is the one
\* named n and the records of that directory are found by getRecord.
C17_ClientFollowsRename ==
    (res.op = "update" /\ res.err = "none" /\ res.name # Undefined) =>
        /\ getMetadata(dirs, client).found
        /\ getMetadata(dirs, client).name = res.name
        /\ StoreDir = dirs[res.name]
        /\ \A i \in 1..Len(dirs[res.name].files) :
              handleFile(StoreDir, dirs[res.name].files[i].key).idx # 0

\* position of an extension in the common-extension list, 0 if not in it
ExtRank(ext) ==
    LET hits == {i \in 1..Len(COMMON_LOCAL_FILE_EXTENSIONS) :
                    COMMON_LOCAL_FILE_EXTENSIONS[i] = ext}
    IN IF hits = {} THEN 0 ELSE Min(hits)

\* file i of the listing is the one the lookup strategy names for the key
\* (i = 0: no file maps to the key)
IsResolvedFile(files, key, i) ==
    LET ofKey == {j \in 1..Len(files) : files[j].key = key}
        common == {j \in ofKey : ExtRank(files[j].ext) # 0}
    IN IF i = 0 THEN ofKey = {}
       ELSE /\ i \in ofKey
            /\ common # {} =>
                  /\ i \in common
                  /\ \A j \in common :
                        ExtRank(files[i].ext) <= ExtRank(files[j].ext)

C18_ModifiedAtNeverGoesBack ==
    [][\A i \in 1..Len(pending) :
          (pending[i].read /\ UtimesDone(i)) =>
              stats'[client.storeDir].mtime >= stats[client.storeDir].mtime]_vars

\* C19: a listKeys call that finds a file it has enumerated gone at stat
\* time throws nothing; its count is the number of enumerated files that
\* are still there and every item has the key of one of them.
C19_VanishedFileIsOmitted ==
    [][(/\ scan.active
        /\ ~scan'.active
        /\ Len(StatFiles(scan.files, StoreDir)) < Len(scan.files)) =>
          LET there == StatFiles(scan.files, StoreDir)
          IN /\ res'.err = "none"
             /\ res'.count = Len(there)
             /\ \A i \in 1..Len(res'.items) :
                   \E j \in 1..Len(there) :
                       res'.items[i] = Item(there[j])]_vars

====
